---- MODULE Spec2Model ----
(***************************************************************************)
(* Verification model of neulix: the manifest-driven asset-tag resolvers   *)
(* (packages/neulix/src/render.ts and src/utils/render.ts), the            *)
(* server-side renderPage (packages/neulix/src/ssr.ts), the client         *)
(* hydrate() on the served document, createPages (types.ts), the           *)
(* development watcher (cli/dev.ts and src/dev.ts) and the production      *)
(* build (cli/build.ts).                                                   *)
(*                                                                         *)
(* JavaScript values are modelled as follows.  A string is a TLA+ string.  *)
(* An object is a function from its own property names to values; an       *)
(* optional property that is not set is absent from the DOMAIN.  A         *)
(* Set<string> is a duplicate-free sequence in insertion order, which is   *)
(* the order Array.from() yields.                                          *)
(***************************************************************************)
EXTENDS Integers, Sequences, FiniteSets, TLC

VARIABLES
  module,        \* which render.ts the caller imports getPageAssetTags from
  manifest,      \* the manifest object handed to getPageAssetTags
  args,          \* arguments of the latest getPageAssetTags call
  result,        \* outcome of the latest getPageAssetTags call
  ref,           \* the first getPageAssetTags call: its arguments and outcome
  cssFiles,      \* src/utils/render.ts: the cssFiles set of the latest call
  preloadFiles,  \* src/utils/render.ts: the preloadFiles set of the latest call
  isDev,         \* ssr.ts: process.env.NODE_ENV !== 'production'
  manifestLoaded,\* ssr.ts: getManifest has made its attempt
  dist,          \* the dist/ directory on disk: manifest.json and the *.css files
  reads,         \* number of readFileSync calls on dist/manifest.json so far
  probes,        \* number of existsSync calls on dist/manifest.json so far
  renders,       \* number of renderPage calls so far
  firstAttempt,  \* what the first getManifest attempt left in `manifest`
  rendered,      \* the latest renderPage call and its outcome
  hydrated,      \* the browser: outcome of hydrate(Component) on the latest document
  input,         \* types.ts: the object handed to createPages
  pages,         \* types.ts: the createPages call made, if any, and what it returned
  devModule,     \* which dev.ts runs the watcher
  main,          \* dev.ts: what the top-level flow awaits
  serverProcess, \* dev.ts: the tracked server child, NoProcess for null
  children,      \* server children spawned by dev.ts that are still running
  spawned,       \* number of server children spawned so far
  buildInProgress, \* dev.ts: the buildClient guard
  builds,        \* dev.ts: the buildClient calls under way, by what they await
  rebuildTimeout,  \* dev.ts: handle of the client debounce timer
  cssRebuildTimeout, \* dev.ts: handle of the CSS debounce timer
  timers,        \* the event loop: milliseconds left of each pending timer, by kind
  event,         \* the latest watch callback: its filename and what it called
  bursts,        \* by kind, the builds started for the current burst of change events
  unbuilt,       \* a client rebuild was scheduled and no build has begun since
  watcher,       \* the fs.watch handle: "open" or "closed"
  exitCode,      \* <<>> while dev.ts runs, <<code>> after process.exit(code)
  project,       \* build.ts: the project built, its stylesheets and client entry files
  step,          \* build.ts: how far buildProduction got, or how it ended
  tailwind,      \* build.ts: exit codes of the Tailwind runs so far
  cssFileNames,  \* build.ts: base name and hashed file of each stylesheet built
  bundle,        \* build.ts: what the bundler returned, if it ran
  argv,          \* create-neulix: process.argv.slice(2)
  disk,          \* create-neulix: the file system, by absolute path
  scaffold       \* create-neulix: what the run printed and its exit code, if it ran

resolverVars == <<module, manifest, args, result, ref, cssFiles, preloadFiles>>

ssrVars == <<isDev, manifestLoaded, dist, reads, probes, renders, firstAttempt, rendered>>

clientVars == <<hydrated>>

pagesVars == <<input, pages>>

devVars ==
  <<devModule, main, serverProcess, children, spawned, buildInProgress, builds,
    rebuildTimeout, cssRebuildTimeout, timers, event, bursts, unbuilt, watcher, exitCode>>

buildVars == <<project, step, tailwind, cssFileNames, bundle>>

createVars == <<argv, disk, scaffold>>

\* what dev.ts never touches, nor the code above it
beyondDev == <<buildVars, createVars>>

\* what createPages never touches, nor the code above it
beyondPages == <<devVars, beyondDev>>

\* what the browser never touches, nor the code above it
beyondClient == <<pagesVars, beyondPages>>

\* what the resolvers and ssr.ts never touch
beyondSsr == <<clientVars, beyondClient>>

vars == <<resolverVars, ssrVars, beyondSsr>>

-----------------------------------------------------------------------------
(* Bounds *)

\* longest imports array of a flat manifest entry
MaxImports == 3

\* longest imports array of a chunk-keyed manifest record
MaxChunkImports == 2

\* deepest nesting of calls the engine allows before it raises RangeError
StackLimit == 4

\* renderPage calls followed in one process
MaxRenders == 3

\* most server children dev.ts spawns
MaxSpawns == 3

-----------------------------------------------------------------------------
(* JavaScript helpers *)

\* Array.prototype.join
RECURSIVE Join(_, _)
Join(seq, sep) ==
  IF Len(seq) = 0 THEN ""
  ELSE IF Len(seq) = 1 THEN seq[1]
  ELSE seq[1] \o sep \o Join(Tail(seq), sep)

\* String.prototype.endsWith
EndsWith(s, suffix) ==
  /\ Len(s) >= Len(suffix)
  /\ SubSeq(s, Len(s) - Len(suffix) + 1, Len(s)) = suffix

\* String.prototype.includes
Includes(s, sub) ==
  \E i \in 1..(Len(s) - Len(sub) + 1) : SubSeq(s, i, i + Len(sub) - 1) = sub

\* number of occurrences of sub in s
Occurrences(s, sub) ==
  Cardinality({i \in 1..(Len(s) - Len(sub) + 1) : SubSeq(s, i, i + Len(sub) - 1) = sub})

\* String.prototype.toUpperCase on one character
ToUpperCase(c) ==
  CASE c = "a" -> "A" [] c = "b" -> "B" [] c = "c" -> "C" [] c = "d" -> "D"
    [] c = "e" -> "E" [] c = "f" -> "F" [] c = "g" -> "G" [] c = "h" -> "H"
    [] c = "i" -> "I" [] c = "j" -> "J" [] c = "k" -> "K" [] c = "l" -> "L"
    [] c = "m" -> "M" [] c = "n" -> "N" [] c = "o" -> "O" [] c = "p" -> "P"
    [] c = "q" -> "Q" [] c = "r" -> "R" [] c = "s" -> "S" [] c = "t" -> "T"
    [] c = "u" -> "U" [] c = "v" -> "V" [] c = "w" -> "W" [] c = "x" -> "X"
    [] c = "y" -> "Y" [] c = "z" -> "Z" [] OTHER -> c

\* entryName.charAt(0).toUpperCase() + entryName.slice(1)
Capitalize(s) ==
  IF Len(s) = 0 THEN "" ELSE ToUpperCase(SubSeq(s, 1, 1)) \o SubSeq(s, 2, Len(s))

\* Property names every plain object inherits from Object.prototype; the
\* values found there are functions or objects, all of them truthy, none of
\* them with a css, js, imports or file property.
ObjectPrototypeKeys == {"constructor", "toString", "valueOf", "hasOwnProperty", "__proto__"}

\* the value found under an inherited name: an object with no property the
\* resolvers read
Inherited == <<>>

\* obj[key] is not undefined
HasProperty(obj, key) == key \in DOMAIN obj \/ key \in ObjectPrototypeKeys

\* obj[key], own property first, then the prototype's
Get(obj, key) == IF key \in DOMAIN obj THEN obj[key] ELSE Inherited

\* `${obj.field}` in a template literal
Interpolate(obj, field) == IF field \in DOMAIN obj THEN obj[field] ELSE "undefined"

\* all sequences over S of length at most n
SeqUpTo(S, n) == UNION {[1..k -> S] : k \in 0..n}

\* Set.prototype.add on an insertion-ordered set
SetAdd(collected, x) ==
  IF \E i \in 1..Len(collected) : collected[i] = x THEN collected ELSE Append(collected, x)

\* Set.prototype.has
SetHas(collected, x) == \E i \in 1..Len(collected) : collected[i] = x

\* new Set<string>()
StaleSet(previous) == previous
NewSet(previous) == <<>>

-----------------------------------------------------------------------------
(* packages/neulix/src/render.ts *)

StylesheetLink(file) == "<link rel=\"stylesheet\" href=\"/" \o file \o "\">"
ModulepreloadLinkAsPreload(file) == "<link rel=\"preload\" href=\"/" \o file \o "\">"
ModulepreloadLink(file) == "<link rel=\"modulepreload\" href=\"/" \o file \o "\">"
NoScript(file) == ""
ModuleScript(file) == "<script type=\"module\" src=\"/" \o file \o "\"></script>"

Returned(script, css, preload) ==
  [status |-> "return", scriptTags |-> script, cssTags |-> css, preloadTags |-> preload]

Threw(error) == [status |-> "throw", error |-> error]

\* entry.js is truthy
JsTruthy(entry) == "js" \in DOMAIN entry /\ entry.js # ""

\* if (!hydrate || !entry.js)
SsrOnlyIgnoringHydrate(entry, hydrate) == ~JsTruthy(entry)
SsrOnly(entry, hydrate) == ~hydrate \/ ~JsTruthy(entry)

\* entry.imports ? entry.imports.map(...).join('\n    ') : ''
FlatPreloadTagsUnguarded(entry) ==
  IF "imports" \in DOMAIN entry
  THEN Join([i \in 1..Len(entry.imports) |-> ModulepreloadLink(entry.imports[i])],
            "\n    ")
  ELSE ModulepreloadLink("undefined")
FlatPreloadTags(entry) ==
  IF "imports" \in DOMAIN entry
  THEN Join([i \in 1..Len(entry.imports) |-> ModulepreloadLink(entry.imports[i])],
            "\n    ")
  ELSE ""

getPageAssetTags(M, entryName, hydrate) ==
  IF ~HasProperty(M, entryName)
  THEN Returned("", "", "")
  ELSE
    LET entry == Get(M, entryName)
        css == StylesheetLink(Interpolate(entry, "css"))
    IN IF SsrOnly(entry, hydrate)
       THEN Returned("", css, "")
       ELSE Returned(ModuleScript(entry.js), css, FlatPreloadTags(entry))

-----------------------------------------------------------------------------
(* src/utils/render.ts *)

Collected(set) == [thrown |-> FALSE, set |-> set]
Overflow(set) == [thrown |-> TRUE, set |-> set]

RECURSIVE AddAll(_, _)
AddAll(collected, files) ==
  IF Len(files) = 0 THEN collected
  ELSE AddAll(SetAdd(collected, Head(files)), Tail(files))

\* collectCss(manifest, chunk, collected) entered at call depth `depth`;
\* collectCssImports is its loop over chunk.imports from index i on
RECURSIVE collectCss(_, _, _, _)
RECURSIVE collectCssImports(_, _, _, _, _)
collectCss(M, chunk, collected, depth) ==
  IF depth > StackLimit THEN Overflow(collected)
  ELSE
    LET own == IF "css" \in DOMAIN chunk THEN AddAll(collected, chunk.css) ELSE collected
    IN IF "imports" \in DOMAIN chunk
       THEN collectCssImports(M, chunk.imports, 1, own, depth)
       ELSE Collected(own)
collectCssImports(M, imports, i, collected, depth) ==
  IF i > Len(imports) THEN Collected(collected)
  ELSE IF ~HasProperty(M, imports[i])
  THEN collectCssImports(M, imports, i + 1, collected, depth)
  ELSE
    LET inner == collectCss(M, Get(M, imports[i]), collected, depth + 1)
    IN IF inner.thrown THEN inner
       ELSE collectCssImports(M, imports, i + 1, inner.set, depth)

\* collectModulePreloads(manifest, chunk, collected) entered at call depth
\* `depth`; collectModulePreloadsImports is its loop over chunk.imports
RECURSIVE collectModulePreloads(_, _, _, _)
RECURSIVE collectModulePreloadsImports(_, _, _, _, _)
collectModulePreloads(M, chunk, collected, depth) ==
  IF depth > StackLimit THEN Overflow(collected)
  ELSE IF "imports" \in DOMAIN chunk
  THEN collectModulePreloadsImports(M, chunk.imports, 1, collected, depth)
  ELSE Collected(collected)
collectModulePreloadsImports(M, imports, i, collected, depth) ==
  IF i > Len(imports) THEN Collected(collected)
  ELSE
    LET importedChunk == Get(M, imports[i])
        file == Interpolate(importedChunk, "file")
    IN IF HasProperty(M, imports[i]) /\ ~SetHas(collected, file)
       THEN LET inner == collectModulePreloads(M, importedChunk, SetAdd(collected, file), depth + 1)
            IN IF inner.thrown THEN inner
               ELSE collectModulePreloadsImports(M, imports, i + 1, inner.set, depth)
       ELSE collectModulePreloadsImports(M, imports, i + 1, collected, depth)

\* hydrate ? `src/pages/${capitalizedEntry}.entry.tsx` : `src/pages/${capitalizedEntry}.css`
EntryKey(entryName, hydrate) ==
  IF hydrate
  THEN "src/pages/" \o Capitalize(entryName) \o ".entry.tsx"
  ELSE "src/pages/" \o Capitalize(entryName) \o ".css"

\* The outcome of a call together with the two sets it built.
Outcome(res, css, preload) == [result |-> res, cssFiles |-> css, preloadFiles |-> preload]

utils_getPageAssetTags(M, entryName, hydrate) ==
  LET entryKey == EntryKey(entryName, hydrate) IN
  IF ~HasProperty(M, entryKey)
  THEN Outcome(Returned("", "", ""), <<>>, <<>>)
  ELSE
    LET entry == Get(M, entryKey)
        css == IF EndsWith(Interpolate(entry, "file"), ".css")
               THEN Collected(SetAdd(NewSet(cssFiles), entry.file))
               ELSE collectCss(M, entry, NewSet(cssFiles), 1)
        cssTags == Join([i \in 1..Len(css.set) |-> StylesheetLink(css.set[i])], "\n    ")
    IN IF css.thrown THEN Outcome(Threw("RangeError"), css.set, <<>>)
       ELSE IF ~hydrate THEN Outcome(Returned("", cssTags, ""), css.set, <<>>)
       ELSE
         LET preload == collectModulePreloads(M, entry, NewSet(preloadFiles), 1)
             preloadTags ==
               Join([i \in 1..Len(preload.set) |-> ModulepreloadLink(preload.set[i])],
                    "\n    ")
         IN IF preload.thrown THEN Outcome(Threw("RangeError"), css.set, preload.set)
            ELSE Outcome(Returned(ModuleScript(entry.file), cssTags, preloadTags),
                         css.set, preload.set)

-----------------------------------------------------------------------------
(* Callers of the resolvers: the manifests and arguments they pass *)

FlatModule == "packages/neulix/src/render.ts"
UtilsModule == "src/utils/render.ts"

\* BuildManifest (packages/neulix/src/types.ts): css, optional js, optional imports
FlatCssFiles == {"styles-def.css"}
FlatJsFiles == {"home-abc.js"}
FlatChunkFiles == {"chunk-xyz.js", "chunk-b.js"}
FlatImports == SeqUpTo(FlatChunkFiles, MaxImports)
FlatEntries ==
  {[css |-> c] : c \in FlatCssFiles}
  \cup {[css |-> c, js |-> j] : c \in FlatCssFiles, j \in FlatJsFiles}
  \cup {[css |-> c, imports |-> im] : c \in FlatCssFiles, im \in FlatImports}
  \cup {[css |-> c, js |-> j, imports |-> im] :
          c \in FlatCssFiles, j \in FlatJsFiles, im \in FlatImports}
FlatKeys == {"home"}
BuildManifests == UNION {[D -> FlatEntries] : D \in SUBSET FlatKeys}
FlatEntryNames == FlatKeys \cup {"missing", "constructor"}

\* PageManifest (src/types.ts): file, optional css, optional imports, keyed by
\* source path (entries) or chunk name (shared chunks)
HomeEntryKey == "src/pages/Home.entry.tsx"
HomeCssKey == "src/pages/Home.css"
ChunkKeys == {"_a.js", "_b.js"}
ChunkImports == SeqUpTo(ChunkKeys, MaxChunkImports)
\* the css array of a record: the page's own stylesheet for the entry, the
\* shared stylesheet for a chunk
ChunkCss(key) ==
  IF key = "src/pages/Home.entry.tsx" THEN {<<"assets/Home-2b.css">>}
  ELSE {<<"assets/shared-5e.css">>}
Chunks(files, css) ==
  {[file |-> f] : f \in files}
  \cup {[file |-> f, css |-> c] : f \in files, c \in css}
  \cup {[file |-> f, imports |-> im] : f \in files, im \in ChunkImports}
  \cup {[file |-> f, css |-> c, imports |-> im] :
          f \in files, c \in css, im \in ChunkImports}
\* the file each key is emitted as (vite.config.ts: entryFileNames,
\* chunkFileNames, assetFileNames keep the extension)
FileOf(key) ==
  CASE key = HomeEntryKey -> {"assets/Home-1a.js"}
    [] key = HomeCssKey -> {"assets/Home-2b.css"}
    [] key = "_a.js" -> {"assets/a-3c.js"}
    [] key = "_b.js" -> {"assets/b-4d.js"}
RecordsOf(key) ==
  IF key = HomeCssKey THEN {[file |-> f] : f \in FileOf(key)}
  ELSE Chunks(FileOf(key), ChunkCss(key))
\* a key the manifest does not hold
Absent == [absent |-> TRUE]
Optional(key) == RecordsOf(key) \cup {Absent}
PageManifestKeys == {HomeEntryKey, HomeCssKey} \cup ChunkKeys
PageManifestOf(choice) ==
  [k \in {key \in PageManifestKeys : choice[key] # Absent} |-> choice[k]]
PageManifests ==
  {PageManifestOf([k \in PageManifestKeys |->
                    CASE k = HomeEntryKey -> e [] k = HomeCssKey -> c
                      [] k = "_a.js" -> a [] k = "_b.js" -> b]) :
     e \in Optional(HomeEntryKey), c \in Optional(HomeCssKey),
     a \in Optional("_a.js"), b \in Optional("_b.js")}
UtilsEntryNames == {"home"}

NoArgs == [entryName |-> "", hydrate |-> FALSE]
NoResult == [status |-> "none"]

-----------------------------------------------------------------------------
(* packages/neulix/src/render.ts: createHtmlTemplate *)

PropsScriptOpen == "<script id=\"__PROPS__\" type=\"application/json\">"

\* an optional template option with its destructuring default
OptionOr(o, field, default) == IF field \in DOMAIN o THEN o[field] ELSE default

\* propsJson ? `<script id="__PROPS__" type="application/json">${propsJson}</script>` : ''
PropsScript(o) ==
  IF "propsJson" \in DOMAIN o /\ o.propsJson # ""
  THEN PropsScriptOpen \o o.propsJson \o "</script>"
  ELSE ""

createHtmlTemplate(o) ==
  "<!DOCTYPE html>\n<html lang=\"en\">\n  <head>\n"
  \o "    <meta charset=\"UTF-8\">\n"
  \o "    <meta name=\"viewport\" content=\"width=device-width, initial-scale=1.0\">\n"
  \o "    <title>" \o OptionOr(o, "title", "App") \o "</title>\n"
  \o "    " \o o.cssTags \o "\n"
  \o "    " \o OptionOr(o, "preloadTags", "") \o "\n"
  \o "    " \o OptionOr(o, "headTags", "") \o "\n"
  \o "  </head>\n  <body>\n"
  \o "    <div id=\"root\">" \o o.appHtml \o "</div>\n"
  \o "    " \o PropsScript(o) \o "\n"
  \o "    " \o o.scriptTags \o "\n"
  \o "    " \o OptionOr(o, "bodyTags", "") \o "\n"
  \o "  </body>\n</html>"

-----------------------------------------------------------------------------
(* packages/neulix/src/ssr.ts *)

\* the value of a variable that was never assigned
Undefined == [undefined |-> TRUE]

\* characters of a string, one at a time
Chars(s) == [i \in 1..Len(s) |-> SubSeq(s, i, i)]

\* JSON.stringify on a string: quotes and backslashes are escaped
JsonEscapeChar(c) == IF c = "\"" THEN "\\\"" ELSE IF c = "\\" THEN "\\\\" ELSE c
JsonString(s) ==
  "\"" \o Join([i \in 1..Len(s) |-> JsonEscapeChar(Chars(s)[i])], "") \o "\""

\* JSON.stringify on a props object, given as its properties in insertion
\* order, each a key and a string value
JsonMember(p) == JsonString(p.key) \o ":" \o JsonString(p.value)
JsonStringify(props) == "{" \o Join([i \in 1..Len(props) |-> JsonMember(props[i])], ",") \o "}"

\* the text escaping react-dom/server applies to string children
EscapeHtmlChar(c) ==
  CASE c = "&" -> "&amp;" [] c = "<" -> "&lt;" [] c = ">" -> "&gt;"
    [] c = "\"" -> "&quot;" [] c = "'" -> "&#x27;" [] OTHER -> c
EscapeHtml(s) == Join([i \in 1..Len(s) |-> EscapeHtmlChar(Chars(s)[i])], "")

\* renderToString of the page component with (props ?? {}): the page's
\* heading followed by one paragraph per prop value
PropParagraph(p) == "<p>" \o EscapeHtml(p.value) \o "</p>"
RenderToString(page, options) ==
  LET props == OptionOr(options, "props", <<>>)
  IN "<h1>" \o EscapeHtml(page.name) \o "</h1>"
     \o Join([i \in 1..Len(props) |-> PropParagraph(props[i])], "")

\* dist/manifest.json on disk
NoFile == [exists |-> FALSE]
CorruptFile == [exists |-> TRUE, valid |-> FALSE]
JsonFile(M) == [exists |-> TRUE, valid |-> TRUE, value |-> M]

\* getManifest(): the value it returns (or that it throws) and the module
\* state and file accesses it leaves behind
ManifestOutcome(thrown, value, m, loaded, r, p) ==
  [thrown |-> thrown, value |-> value, manifest |-> m, manifestLoaded |-> loaded,
   reads |-> r, probes |-> p]

getManifestUnguarded ==
  IF isDev THEN ManifestOutcome(FALSE, Undefined, manifest, manifestLoaded, reads, probes)
  ELSE IF ~dist.manifest.exists
  THEN ManifestOutcome(FALSE, manifest, manifest, TRUE, reads, probes + 1)
  ELSE IF ~dist.manifest.valid
  THEN ManifestOutcome(TRUE, Undefined, manifest, TRUE, reads + 1, probes + 1)
  ELSE ManifestOutcome(FALSE, dist.manifest.value, dist.manifest.value, TRUE,
                       reads + 1, probes + 1)
getManifest ==
  IF isDev THEN ManifestOutcome(FALSE, Undefined, manifest, manifestLoaded, reads, probes)
  ELSE IF manifestLoaded
  THEN ManifestOutcome(FALSE, manifest, manifest, manifestLoaded, reads, probes)
  ELSE IF ~dist.manifest.exists
  THEN ManifestOutcome(FALSE, manifest, manifest, TRUE, reads, probes + 1)
  ELSE IF ~dist.manifest.valid
  THEN ManifestOutcome(TRUE, Undefined, manifest, TRUE, reads + 1, probes + 1)
  ELSE ManifestOutcome(FALSE, dist.manifest.value, dist.manifest.value, TRUE,
                       reads + 1, probes + 1)

\* getDevCssTags(): a stylesheet link per dist/*.css file
getDevCssTags == Join([i \in 1..Len(dist.css) |-> StylesheetLink(dist.css[i])], "\n    ")

\* page.hydrate && props ? JSON.stringify(props) : undefined
PropsJsonIgnoringHydrate(page, options) ==
  IF "props" \in DOMAIN options
  THEN [propsJson |-> JsonStringify(options.props)]
  ELSE <<>>
PropsJson(page, options) ==
  IF page.hydrate /\ "props" \in DOMAIN options
  THEN [propsJson |-> JsonStringify(options.props)]
  ELSE <<>>

\* the options that renderPage hands on to createHtmlTemplate unchanged
Passed(options, field) ==
  IF field \in DOMAIN options THEN [f \in {field} |-> options[field]] ELSE <<>>

\* renderPage(page, options) after getManifest() returned manifestValue (in
\* development it is not called): the document, and the getPageAssetTags
\* call made on the way, if any
RenderOutcome(html, called, assets) == [html |-> html, called |-> called, assets |-> assets]

renderPage(page, options, manifestValue) ==
  LET appHtml == RenderToString(page, options)
      called == ~isDev /\ manifestValue # Undefined
      assets ==
        IF isDev
        THEN Returned(IF page.hydrate THEN ModuleScript(page.name \o ".client.js") ELSE "",
                      getDevCssTags, "")
        ELSE IF called
        THEN getPageAssetTags(manifestValue, page.name, page.hydrate)
        ELSE Returned("", "", "")
      template ==
        [appHtml |-> appHtml, scriptTags |-> assets.scriptTags, cssTags |-> assets.cssTags,
         preloadTags |-> assets.preloadTags]
        @@ Passed(options, "title") @@ PropsJson(page, options)
        @@ Passed(options, "headTags") @@ Passed(options, "bodyTags")
  IN RenderOutcome(createHtmlTemplate(template), called, assets)

\* the pages registry of the running application (createPages output,
\* components left out)
Pages ==
  {[name |-> "home", hydrate |-> TRUE],
   [name |-> "docs", hydrate |-> FALSE],
   [name |-> "about", hydrate |-> TRUE]}

\* RenderOptions (packages/neulix/src/types.ts): every field optional
PropsValues == {<<>>, <<[key |-> "user", value |-> "ann"]>>}
OptionalField(field, values) == {<<>>} \cup {[f \in {field} |-> v] : v \in values}
RenderOptions ==
  {p @@ t @@ h @@ b :
     p \in OptionalField("props", PropsValues),
     t \in OptionalField("title", {"Users"}),
     h \in OptionalField("headTags", {"<meta name=\"robots\" content=\"noindex\">"}),
     b \in OptionalField("bodyTags", {"<script src=\"/analytics.js\"></script>"})}

\* manifests a production build of that application writes
SsrManifests ==
  {[home |-> [js |-> "home-abc.js", css |-> "styles-def.css", imports |-> <<"chunk-xyz.js">>],
    docs |-> [css |-> "styles-def.css"]],
   [home |-> [js |-> "home-777.js", css |-> "styles-888.css"],
    docs |-> [css |-> "styles-888.css"]]}

Dist(manifestFile, css) == [manifest |-> manifestFile, css |-> css]
BuiltDist(M) == Dist(JsonFile(M), <<M["docs"].css>>)
DistStates ==
  {Dist(NoFile, <<>>), Dist(NoFile, <<"styles.css">>), Dist(CorruptFile, <<"styles-def.css">>)}
  \cup {BuiltDist(M) : M \in SsrManifests}

NoRender == [status |-> "none"]

\* no document was loaded in a browser
NoHydration == [status |-> "none"]

\* createPages was not called
NoPages == [created |-> FALSE]

\* serverProcess = null
NoProcess == 0

\* rebuildTimeout = null, and the handle setTimeout returns
NoTimeout == [set |-> FALSE]
Timeout(ms) == [set |-> TRUE, ms |-> ms]

\* no burst of change events is under way
NoBurst == [phase |-> "none", started |-> 0, quiet |-> 0]

\* dev.ts does not run
DevUnused ==
  /\ devModule = "none"
  /\ main = "none"
  /\ serverProcess = NoProcess
  /\ children = {}
  /\ spawned = 0
  /\ buildInProgress = FALSE
  /\ builds = [loading |-> 0, bundling |-> 0]
  /\ rebuildTimeout = NoTimeout
  /\ cssRebuildTimeout = NoTimeout
  /\ timers = [client |-> {}, css |-> {}]
  /\ event = [delivered |-> FALSE]
  /\ bursts = [client |-> NoBurst, css |-> NoBurst]
  /\ unbuilt = FALSE
  /\ watcher = "none"
  /\ exitCode = <<>>

\* buildProduction does not run
BuildUnused ==
  /\ project = <<>>
  /\ step = "none"
  /\ tailwind = <<>>
  /\ cssFileNames = <<>>
  /\ bundle = [ran |-> FALSE]

\* create-neulix does not run
CreateUnused == argv = <<>> /\ disk = <<>> /\ scaffold = [ran |-> FALSE]

\* nothing runs but the resolvers and ssr.ts
BeyondSsrIdle ==
  /\ hydrated = NoHydration /\ input = <<>> /\ pages = NoPages
  /\ DevUnused /\ BuildUnused /\ CreateUnused

\* ssr.ts is not loaded
SsrUnused ==
  /\ isDev = TRUE
  /\ manifestLoaded = FALSE
  /\ dist = Dist(NoFile, <<>>)
  /\ reads = 0
  /\ probes = 0
  /\ renders = 0
  /\ firstAttempt = [made |-> FALSE]
  /\ rendered = NoRender

InitResolver ==
  /\ \/ module = FlatModule /\ manifest \in BuildManifests
     \/ module = UtilsModule /\ manifest \in PageManifests
  /\ args = NoArgs
  /\ result = NoResult
  /\ ref = [args |-> NoArgs, result |-> NoResult]
  /\ cssFiles = <<>>
  /\ preloadFiles = <<>>
  /\ SsrUnused
  /\ BeyondSsrIdle

\* A caller invokes getPageAssetTags of packages/neulix/src/render.ts; the
\* first call is kept for comparison with the later ones.
FlatCall ==
  /\ module = FlatModule
  /\ \E entryName \in FlatEntryNames, hydrate \in BOOLEAN :
       LET a == [entryName |-> entryName, hydrate |-> hydrate]
           r == getPageAssetTags(manifest, entryName, hydrate)
       IN /\ args' = a
          /\ result' = r
          /\ ref' = IF ref.result = NoResult THEN [args |-> a, result |-> r] ELSE ref
  /\ UNCHANGED <<module, manifest, cssFiles, preloadFiles>>
  /\ UNCHANGED ssrVars
  /\ UNCHANGED beyondSsr

\* A caller invokes getPageAssetTags of src/utils/render.ts.
UtilsCall ==
  /\ module = UtilsModule
  /\ \E entryName \in UtilsEntryNames, hydrate \in BOOLEAN :
       LET a == [entryName |-> entryName, hydrate |-> hydrate]
           o == utils_getPageAssetTags(manifest, entryName, hydrate)
       IN /\ args' = a
          /\ result' = o.result
          /\ cssFiles' = o.cssFiles
          /\ preloadFiles' = o.preloadFiles
          /\ ref' = IF ref.result = NoResult THEN [args |-> a, result |-> o.result] ELSE ref
  /\ UNCHANGED <<module, manifest>>
  /\ UNCHANGED ssrVars
  /\ UNCHANGED beyondSsr

Init == InitResolver
Next == FlatCall \/ UtilsCall
Spec == Init /\ [][Next]_vars

\* no getPageAssetTags call was made
ResolverUnused ==
  /\ module = FlatModule
  /\ manifest = Undefined
  /\ args = NoArgs
  /\ result = NoResult
  /\ ref = [args |-> NoArgs, result |-> NoResult]
  /\ cssFiles = <<>>
  /\ preloadFiles = <<>>

\* ssr.ts after module load: nothing read yet
InitSsr ==
  /\ ResolverUnused
  /\ isDev \in BOOLEAN
  /\ manifestLoaded = FALSE
  /\ dist \in DistStates
  /\ reads = 0
  /\ probes = 0
  /\ renders = 0
  /\ firstAttempt = [made |-> FALSE]
  /\ rendered = NoRender
  /\ BeyondSsrIdle

\* renderPage(page, options) runs to its end.
RenderPageWith(page, options) ==
  /\ renders < MaxRenders
  /\ renders' = renders + 1
  /\ LET g == getManifest
         o == renderPage(page, options, g.value)
     IN   /\ manifest' = g.manifest
          /\ manifestLoaded' = g.manifestLoaded
          /\ reads' = g.reads
          /\ probes' = g.probes
          /\ firstAttempt' = IF isDev \/ firstAttempt.made THEN firstAttempt
                             ELSE [made |-> TRUE, manifest |-> g.manifest]
          /\ IF g.thrown
             THEN /\ rendered' = [status |-> "throw", page |-> page, options |-> options,
                                  error |-> "SyntaxError"]
                  /\ UNCHANGED <<args, result>>
             ELSE /\ rendered' = [status |-> "return", page |-> page, options |-> options,
                                  html |-> o.html, used |-> g.value]
                  /\ IF o.called
                     THEN /\ args' = [entryName |-> page.name, hydrate |-> page.hydrate]
                          /\ result' = o.assets
                     ELSE UNCHANGED <<args, result>>
  /\ UNCHANGED <<module, ref, cssFiles, preloadFiles, isDev, dist>>

\* A request handler calls renderPage(page, options).
RenderPage ==
  /\ \E page \in Pages, options \in RenderOptions : RenderPageWith(page, options)
  /\ UNCHANGED beyondSsr

\* A production build starts while the server runs: dist/ is removed.
CleanDist ==
  /\ dist.manifest.exists \/ Len(dist.css) > 0
  /\ dist' = Dist(NoFile, <<>>)
  /\ UNCHANGED <<resolverVars, isDev, manifestLoaded, reads, probes, renders,
                 firstAttempt, rendered>>
  /\ UNCHANGED beyondSsr

\* The build ends: the hashed stylesheet and manifest.json are written.
WriteManifest ==
  /\ ~dist.manifest.exists
  /\ \E M \in SsrManifests : dist' = BuiltDist(M)
  /\ UNCHANGED <<resolverVars, isDev, manifestLoaded, reads, probes, renders,
                 firstAttempt, rendered>>
  /\ UNCHANGED beyondSsr

NextSsr == RenderPage \/ CleanDist \/ WriteManifest
SpecSsr == InitSsr /\ [][NextSsr]_vars

-----------------------------------------------------------------------------
(* The browser: packages/neulix/src/client/hydrate.tsx on a served document *)

\* String.prototype.indexOf(search, from), 1-based; 0 when there is none
IndexOf(s, search, from) ==
  LET at == {i \in from..(Len(s) - Len(search) + 1) : SubSeq(s, i, i + Len(search) - 1) = search}
  IN IF at = {} THEN 0 ELSE CHOOSE i \in at : \A j \in at : i <= j

\* document.getElementById('__PROPS__'): the first element of that id.  The
\* HTML parser ends a script element at the first "</script>" after its
\* start tag, whatever the text between them is.
getElementById__PROPS__(html) ==
  LET open == IndexOf(html, PropsScriptOpen, 1)
      start == open + Len(PropsScriptOpen)
      end == IndexOf(html, "</script>", start)
  IN IF open = 0 \/ end = 0
     THEN [element |-> FALSE]
     ELSE [element |-> TRUE, textContent |-> SubSeq(html, start, end - 1)]

\* JSON.parse on the text of an object whose values are strings
SyntaxError == [ok |-> FALSE]
Parsed(value, next) == [ok |-> TRUE, value |-> value, next |-> next]
CharAt(s, i) == IF i >= 1 /\ i <= Len(s) THEN SubSeq(s, i, i) ELSE ""

\* a string literal whose opening quote is just before position i
RECURSIVE ParseStringBody(_, _, _)
ParseStringBody(s, i, acc) ==
  LET c == CharAt(s, i)
  IN IF c = "" THEN SyntaxError
     ELSE IF c = "\"" THEN Parsed(acc, i + 1)
     ELSE IF c = "\\"
     THEN IF CharAt(s, i + 1) \in {"\"", "\\", "/"}
          THEN ParseStringBody(s, i + 2, acc \o CharAt(s, i + 1))
          ELSE SyntaxError
     ELSE ParseStringBody(s, i + 1, acc \o c)
ParseString(s, i) ==
  IF CharAt(s, i) = "\"" THEN ParseStringBody(s, i + 1, "") ELSE SyntaxError

\* the members of an object from position i on, up to its closing brace
RECURSIVE ParseMembers(_, _, _)
ParseMembers(s, i, acc) ==
  LET key == ParseString(s, i)
      value == IF key.ok /\ CharAt(s, key.next) = ":"
               THEN ParseString(s, key.next + 1)
               ELSE SyntaxError
      members == Append(acc, [key |-> key.value, value |-> value.value])
  IN IF ~value.ok THEN SyntaxError
     ELSE IF CharAt(s, value.next) = "," THEN ParseMembers(s, value.next + 1, members)
     ELSE IF CharAt(s, value.next) = "}" THEN Parsed(members, value.next + 1)
     ELSE SyntaxError

JsonParse(text) ==
  LET object ==
        IF CharAt(text, 1) # "{" THEN SyntaxError
        ELSE IF CharAt(text, 2) = "}" THEN Parsed(<<>>, 3)
        ELSE ParseMembers(text, 2, <<>>)
  IN IF object.ok /\ object.next = Len(text) + 1 THEN object ELSE SyntaxError

\* getProps(): undefined without a non-empty __PROPS__ element
getProps(html) ==
  LET propsEl == getElementById__PROPS__(html)
  IN IF propsEl.element /\ propsEl.textContent # ""
     THEN LET parsed == JsonParse(propsEl.textContent)
          IN IF parsed.ok THEN [status |-> "return", defined |-> TRUE, value |-> parsed.value]
             ELSE [status |-> "throw", error |-> "SyntaxError"]
     ELSE [status |-> "return", defined |-> FALSE]

\* hydrate(Component): the props handed to the component, (props ?? {})
hydrate(html) ==
  LET props == getProps(html)
  IN IF ~Includes(html, "<div id=\"root\">") THEN [status |-> "return", mounted |-> FALSE]
     ELSE IF props.status = "throw" THEN props
     ELSE [status |-> "return", mounted |-> TRUE,
           props |-> IF props.defined THEN props.value ELSE <<>>]

\* props a route handler may hand to renderPage
ClientPropsValues ==
  PropsValues
  \cup {<<[key |-> "bio", value |-> "</script><script>alert(1)</script>"]>>,
        <<[key |-> "motto", value |-> "say \"hi\" \\o/"], [key |-> "user", value |-> "ann"]>>}
ClientOptions ==
  {p @@ t : p \in OptionalField("props", ClientPropsValues),
            t \in OptionalField("title", {"Users"})}

\* A request handler calls renderPage(page, options) and sends the document.
Request ==
  /\ \E page \in Pages, options \in ClientOptions : RenderPageWith(page, options)
  /\ hydrated' = NoHydration
  /\ UNCHANGED beyondClient

\* The browser loads the document; its module script, the page's client
\* entry, calls hydrate(Component).
Hydrate ==
  /\ rendered.status = "return"
  /\ Includes(rendered.html, "<script type=\"module\" src=")
  /\ hydrated = NoHydration
  /\ hydrated' = hydrate(rendered.html)
  /\ UNCHANGED <<resolverVars, ssrVars, beyondClient>>

NextClient == Request \/ Hydrate
SpecClient == InitSsr /\ [][NextClient]_vars

-----------------------------------------------------------------------------
(* packages/neulix/src/types.ts: createPages *)

\* result[key] = value on a plain object: "__proto__" names the accessor of
\* Object.prototype, which replaces the prototype and adds no own property
SetProperty(obj, key, value) ==
  IF key = "__proto__" THEN obj ELSE (key :> value) @@ obj

\* the loop over Object.keys(input), keys being those not yet visited; each
\* gets { ...input[key], name: key }
RECURSIVE createPagesLoop(_, _, _)
createPagesLoop(given, keys, made) ==
  IF keys = {} THEN made
  ELSE LET key == CHOOSE k \in keys : TRUE
       IN createPagesLoop(given, keys \ {key},
                          SetProperty(made, key, [name |-> key] @@ given[key]))
createPages(given) == createPagesLoop(given, DOMAIN given, <<>>)

\* page registries an application may hand to createPages; a page object
\* built from a PageConfig brings a name of its own
PagesInputs ==
  LET PageInputs ==
        [component : {"Home", "Docs"}, hydrate : BOOLEAN]
        \cup {[component |-> "Home", hydrate |-> TRUE, name |-> "landing"]}
  IN UNION {[keys -> PageInputs] : keys \in SUBSET {"home", "docs", "constructor", "__proto__"}}

\* The registry module calls createPages(input).
CreatePages ==
  /\ ~pages.created
  /\ pages' = [created |-> TRUE, given |-> input, result |-> createPages(input)]
  /\ UNCHANGED <<input, resolverVars, ssrVars, clientVars, beyondPages>>

InitPages ==
  /\ ResolverUnused /\ SsrUnused
  /\ hydrated = NoHydration
  /\ input \in PagesInputs
  /\ pages = NoPages
  /\ DevUnused /\ BuildUnused /\ CreateUnused
NextPages == CreatePages
SpecPages == InitPages /\ [][NextPages]_vars

-----------------------------------------------------------------------------
(* The development watcher: packages/neulix/src/cli/dev.ts and src/dev.ts *)

CliDev == "packages/neulix/src/cli/dev.ts"
SrcDev == "src/dev.ts"
\* the first watcher, which restarts the server and builds nothing
FirstDev == "src/api/hello.ts"

\* setTimeout(..., 100)
DebounceMs == 100

\* the suffix of a page's client entry file
ClientEntrySuffix(mod) == IF mod = CliDev THEN ".client.tsx" ELSE ".entry.tsx"

\* a file under pages/ the server renders: no client entry, no stylesheet
PageWithEntries(mod, filename) ==
  Includes(filename, "pages/") /\ ~EndsWith(filename, ".css")
ServerPage(mod, filename) ==
  /\ Includes(filename, "pages/")
  /\ ~EndsWith(filename, ClientEntrySuffix(mod))
  /\ ~EndsWith(filename, ".css")

\* the watch callback on a filename ("" for none): whether it calls
\* scheduleCssRebuild, and how often restartServer and scheduleClientRebuild
OnChange(mod, filename) ==
  LET css == EndsWith(filename, ".css") \/ EndsWith(filename, ".tsx")
      serverSide ==
        \/ EndsWith(filename, "server.ts")
        \/ Includes(filename, "utils/")
        \/ Includes(filename, "api/")
        \/ ServerPage(mod, filename)
      clientSide ==
        \/ EndsWith(filename, ClientEntrySuffix(mod))
        \/ Includes(filename, "client/")
        \/ mod = CliDev /\ Includes(filename, "pages/") /\ EndsWith(filename, ".tsx")
      registry == Includes(filename, "registry.ts")
      count(hit) == IF hit THEN 1 ELSE 0
  IN IF filename = "" THEN [css |-> FALSE, restarts |-> 0, client |-> 0]
     ELSE IF mod = FirstDev
     THEN [css |-> FALSE, client |-> 0,
           restarts |-> count(\/ EndsWith(filename, ".ts")
                              \/ EndsWith(filename, ".tsx")
                              \/ EndsWith(filename, ".css"))]
     ELSE IF mod = SrcDev /\ serverSide THEN [css |-> css, restarts |-> 1, client |-> 0]
     ELSE [css |-> css, restarts |-> count(serverSide) + count(registry),
           client |-> count(clientSide) + count(registry)]

\* serverProcess.kill() among the running children
Spare(running, process) == running
Kill(running, process) == running \ {process}

\* startServer() on the server state: the tracked child is killed, a new one
\* spawned and tracked
Untracked(tracked, running, count) ==
  [serverProcess |-> NoProcess, children |-> running, spawned |-> count]
ServerState(tracked, running, count) ==
  [serverProcess |-> tracked, children |-> running, spawned |-> count]
startServer(st) ==
  LET running == IF st.serverProcess # NoProcess THEN Kill(st.children, st.serverProcess)
                 ELSE st.children
  IN ServerState(st.spawned + 1, running \cup {st.spawned + 1}, st.spawned + 1)

\* restartServer() called n times in a row
RECURSIVE restartServer(_, _)
restartServer(st, n) == IF n = 0 THEN st ELSE restartServer(startServer(st), n - 1)

\* scheduleClientRebuild() and scheduleCssRebuild(): the pending timers of
\* the kind after clearTimeout(handle) and setTimeout
Schedule(pending, handle) ==
  (IF handle.set THEN pending \ {handle.ms} ELSE pending) \cup {DebounceMs}

\* files under src/ a change event may name, "" for an event without one
Filenames ==
  {"", "server.ts", "utils/render.ts", "api/users.ts", "pages/registry.ts", "pages/Home.tsx",
   "pages/Home.client.tsx", "pages/Home.entry.tsx", "styles/global.css",
   "client/hydrate.tsx", "client/utils/format.ts"}

Running == exitCode = <<>>
SetServer(st) ==
  /\ serverProcess' = st.serverProcess
  /\ children' = st.children
  /\ spawned' = st.spawned

\* a burst of change events of a kind after one more event
Opened(burst) ==
  [phase |-> "open", started |-> IF burst.phase = "open" THEN burst.started ELSE 0, quiet |-> 0]

\* and after the timer of the kind ran its callback
Fired(burst, pending, built) ==
  [burst EXCEPT !.phase = IF pending = {} THEN "over" ELSE "open",
                !.started = IF built THEN @ + 1 ELSE @]

\* if (buildInProgress) return
Unguarded(inProgress) == FALSE
Skipped(inProgress) == inProgress

\* buildClient() up to its first await: unless skipped it sets the guard and
\* awaits loadPages() in cli/dev.ts, the bundler in src/dev.ts
buildClient(mod, inProgress, underWay) ==
  IF Skipped(inProgress)
  THEN [started |-> FALSE, buildInProgress |-> inProgress, builds |-> underWay]
  ELSE [started |-> TRUE, buildInProgress |-> TRUE,
        builds |-> IF mod = CliDev THEN [underWay EXCEPT !.loading = @ + 1]
                   ELSE [underWay EXCEPT !.bundling = @ + 1]]

\* The initial buildCss() resolves; the top-level flow calls buildClient(),
\* which returns at once when a build is in progress, and then startServer().
CssBuilt ==
  /\ Running /\ main = "css"
  /\ LET call == buildClient(devModule, buildInProgress, builds)
     IN /\ buildInProgress' = call.buildInProgress
        /\ builds' = call.builds
        /\ unbuilt' = (unbuilt /\ ~call.started)
        /\ IF call.started
           THEN /\ main' = "client"
                /\ UNCHANGED <<serverProcess, children, spawned>>
           ELSE /\ spawned < MaxSpawns
                /\ main' = "watching"
                /\ SetServer(startServer(ServerState(serverProcess, children, spawned)))
  /\ UNCHANGED <<devModule, rebuildTimeout, cssRebuildTimeout, timers, event, bursts,
                 watcher, exitCode>>
  /\ UNCHANGED <<resolverVars, ssrVars, clientVars, pagesVars, beyondDev>>

\* cli/dev.ts: loadPages() and the findClientEntry() calls settle.  When all
\* resolve the bundler is started.  When one rejects buildClient() rejects
\* with its guard set: in the top-level flow dev() rejects and the process
\* ends; in a timer callback the rejection is unhandled, which ends the
\* process or not as the runtime is set up.
PagesLoaded ==
  /\ Running /\ builds.loading > 0
  /\ \E rejected \in BOOLEAN, fatal \in BOOLEAN :
       /\ builds' = [loading |-> builds.loading - 1,
                     bundling |-> builds.bundling + (IF rejected THEN 0 ELSE 1)]
       /\ unbuilt' = (unbuilt /\ rejected)
       /\ main' = IF rejected /\ main = "client" THEN "rejected" ELSE main
       /\ exitCode' = IF rejected /\ (fatal \/ main = "client") THEN <<1>> ELSE exitCode
  /\ UNCHANGED <<devModule, serverProcess, children, spawned, buildInProgress, rebuildTimeout,
                 cssRebuildTimeout, timers, event, bursts, watcher>>
  /\ UNCHANGED <<resolverVars, ssrVars, clientVars, pagesVars, beyondDev>>

\* The bundler returns: buildClient() clears its guard and resolves; the
\* top-level flow, if it awaits this build, calls startServer().
ClientBuilt ==
  /\ Running /\ builds.bundling > 0
  /\ builds' = [builds EXCEPT !.bundling = @ - 1]
  /\ buildInProgress' = FALSE
  /\ IF main = "client"
     THEN /\ spawned < MaxSpawns
          /\ main' = "watching"
          /\ SetServer(startServer(ServerState(serverProcess, children, spawned)))
     ELSE UNCHANGED <<main, serverProcess, children, spawned>>
  /\ UNCHANGED <<devModule, rebuildTimeout, cssRebuildTimeout, timers, event, bursts,
                 unbuilt, watcher, exitCode>>
  /\ UNCHANGED <<resolverVars, ssrVars, clientVars, pagesVars, beyondDev>>

\* fs.watch delivers a change event: the watch callback runs.
Change ==
  /\ Running /\ watcher = "open"
  /\ \E filename \in Filenames :
       LET calls == OnChange(devModule, filename)
       IN /\ spawned + calls.restarts <= MaxSpawns
          /\ SetServer(restartServer(ServerState(serverProcess, children, spawned), calls.restarts))
          /\ cssRebuildTimeout' = IF calls.css THEN Timeout(DebounceMs) ELSE cssRebuildTimeout
          /\ rebuildTimeout' = IF calls.client > 0 THEN Timeout(DebounceMs) ELSE rebuildTimeout
          /\ timers' =
               [css |-> IF calls.css THEN Schedule(timers.css, cssRebuildTimeout)
                        ELSE timers.css,
                client |-> IF calls.client > 0 THEN Schedule(timers.client, rebuildTimeout)
                           ELSE timers.client]
          /\ bursts' =
               [css |-> IF calls.css THEN Opened(bursts.css) ELSE bursts.css,
                client |-> IF calls.client > 0 THEN Opened(bursts.client) ELSE bursts.client]
          /\ unbuilt' = (unbuilt \/ calls.client > 0)
          /\ event' = [delivered |-> TRUE, filename |-> filename] @@ calls
  /\ UNCHANGED <<devModule, main, buildInProgress, builds, watcher, exitCode>>
  /\ UNCHANGED <<resolverVars, ssrVars, clientVars, pagesVars, beyondDev>>

\* The client debounce timer runs out: its callback calls buildClient(),
\* which starts a build unless one is in progress, and clears the handle.
ClientTimerFires ==
  /\ Running /\ 0 \in timers.client
  /\ timers' = [timers EXCEPT !.client = @ \ {0}]
  /\ rebuildTimeout' = NoTimeout
  /\ LET call == buildClient(devModule, buildInProgress, builds)
     IN /\ buildInProgress' = call.buildInProgress
        /\ builds' = call.builds
        /\ unbuilt' = (unbuilt /\ ~call.started)
        /\ bursts' = [bursts EXCEPT !.client = Fired(@, timers'.client, call.started)]
  /\ UNCHANGED <<devModule, main, serverProcess, children, spawned, cssRebuildTimeout,
                 event, watcher, exitCode>>
  /\ UNCHANGED <<resolverVars, ssrVars, clientVars, pagesVars, beyondDev>>

\* The CSS debounce timer runs out: its callback calls buildCss(), which
\* spawns Tailwind, and clears the handle.
CssTimerFires ==
  /\ Running /\ 0 \in timers.css
  /\ timers' = [timers EXCEPT !.css = @ \ {0}]
  /\ cssRebuildTimeout' = NoTimeout
  /\ bursts' = [bursts EXCEPT !.css = Fired(@, timers'.css, TRUE)]
  /\ UNCHANGED <<devModule, main, serverProcess, children, spawned, buildInProgress, builds,
                 rebuildTimeout, event, unbuilt, watcher, exitCode>>
  /\ UNCHANGED <<resolverVars, ssrVars, clientVars, pagesVars, beyondDev>>

\* Half the debounce delay passes with no timer due earlier.
Advance ==
  LET half == DebounceMs \div 2
      Later(pending) == {ms - half : ms \in pending}
      LaterHandle(handle) == IF handle.set THEN Timeout(handle.ms - half) ELSE handle
      Quieter(burst) ==
        IF burst.phase = "open" /\ burst.quiet < DebounceMs
        THEN [burst EXCEPT !.quiet = @ + half]
        ELSE burst
  IN /\ Running
     /\ timers.client \cup timers.css # {}
     /\ \A ms \in timers.client \cup timers.css : ms >= half
     /\ timers' = [css |-> Later(timers.css), client |-> Later(timers.client)]
     /\ rebuildTimeout' = LaterHandle(rebuildTimeout)
     /\ cssRebuildTimeout' = LaterHandle(cssRebuildTimeout)
     /\ bursts' = [css |-> Quieter(bursts.css), client |-> Quieter(bursts.client)]
     /\ UNCHANGED <<devModule, main, serverProcess, children, spawned, buildInProgress,
                    builds, event, unbuilt, watcher, exitCode>>
     /\ UNCHANGED <<resolverVars, ssrVars, clientVars, pagesVars, beyondDev>>

\* SIGINT or SIGTERM arrives: the tracked child is killed, the watcher
\* closed, and the process exits with code 0.
Signal ==
  /\ Running
  /\ children' = IF serverProcess # NoProcess THEN Kill(children, serverProcess) ELSE children
  /\ watcher' = "closed"
  /\ exitCode' = <<0>>
  /\ UNCHANGED <<devModule, main, serverProcess, spawned, buildInProgress, builds,
                 rebuildTimeout, cssRebuildTimeout, timers, event, bursts, unbuilt>>
  /\ UNCHANGED <<resolverVars, ssrVars, clientVars, pagesVars, beyondDev>>

\* dev.ts ran up to its first await: watcher and signal handlers are
\* registered and the initial buildCss() is under way.  The first watcher
\* ran to its end: it called startServer() and watches.
InitDev ==
  /\ ResolverUnused /\ SsrUnused
  /\ hydrated = NoHydration
  /\ input = <<>> /\ pages = NoPages
  /\ devModule \in {CliDev, SrcDev, FirstDev}
  /\ main = IF devModule = FirstDev THEN "watching" ELSE "css"
  /\ LET none == ServerState(NoProcess, {}, 0)
         st == IF devModule = FirstDev THEN startServer(none) ELSE none
     IN serverProcess = st.serverProcess /\ children = st.children /\ spawned = st.spawned
  /\ buildInProgress = FALSE
  /\ builds = [loading |-> 0, bundling |-> 0]
  /\ rebuildTimeout = NoTimeout
  /\ cssRebuildTimeout = NoTimeout
  /\ timers = [client |-> {}, css |-> {}]
  /\ event = [delivered |-> FALSE]
  /\ bursts = [client |-> NoBurst, css |-> NoBurst]
  /\ unbuilt = FALSE
  /\ watcher = "open"
  /\ exitCode = <<>>
  /\ BuildUnused /\ CreateUnused
NextDev ==
  \/ CssBuilt \/ PagesLoaded \/ ClientBuilt \/ Change \/ ClientTimerFires \/ CssTimerFires
  \/ Advance \/ Signal
SpecDev == InitDev /\ [][NextDev]_vars

-----------------------------------------------------------------------------
(* packages/neulix/src/cli/build.ts: buildProduction *)

\* String.prototype.toLowerCase
ToLowerCase(s) ==
  LET letters == {"a", "b", "c", "d", "e", "f", "g", "h", "i", "j", "k", "l", "m", "n", "o",
                  "p", "q", "r", "s", "t", "u", "v", "w", "x", "y", "z"}
      lower(c) == IF \E l \in letters : ToUpperCase(l) = c /\ l # c
                  THEN CHOOSE l \in letters : ToUpperCase(l) = c
                  ELSE c
  IN Join([i \in 1..Len(s) |-> lower(SubSeq(s, i, i))], "")

\* rmSync(distPath, { recursive: true, force: true }) and mkdirSync
Kept(d) == d
Cleaned(d) == Dist(NoFile, <<>>)

\* cssFileNames['input'] || cssFileNames['global'] || Object.values(cssFileNames)[0],
\* as the css property of a manifest entry: none when the value is undefined
CssProperty(names) ==
  LET of(baseName) == {i \in 1..Len(names) : names[i].baseName = baseName}
  IN IF of("input") # {} THEN [css |-> names[CHOOSE i \in of("input") : TRUE].file]
     ELSE IF of("global") # {} THEN [css |-> names[CHOOSE i \in of("global") : TRUE].file]
     ELSE IF Len(names) > 0 THEN [css |-> names[1].file]
     ELSE <<>>

\* findClientEntry(entryName) for a page whose client entry file exists, the
\* capitalised file found by the case-insensitive search
EntryPath(entryName) == "/app/src/pages/" \o Capitalize(entryName) \o ".client.tsx"

\* the manifest buildProduction writes after a bundler run that succeeded or
\* was skipped: found are the hydrated pages with a client entry, for each of
\* which the bundler emitted [dir]/[name]-[hash].js under dist/
WrittenManifest(found, chunks, names) ==
  LET root == "/src/pages/"
      relativePath(ep) ==
        SubSeq(ep, IndexOf(ep, root, 1) + Len(root), Len(ep) - Len(".tsx")) \o "-3f9a1c.js"
      epRelative(ep) ==
        SubSeq(ep, IndexOf(ep, root, 1) + Len(root), Len(ep) - Len(".client.tsx"))
      relativeBase(path) == SubSeq(path, 1, IndexOf(path, ".client-", 1) - 1)
      outputs == {relativePath(EntryPath(n)) : n \in found}
      matched ==
        {n \in found :
           \E path \in outputs :
             ToLowerCase(epRelative(EntryPath(n))) = ToLowerCase(relativeBase(path))}
      imports == IF Len(chunks) > 0 THEN [imports |-> chunks] ELSE <<>>
      hydratedEntries ==
        [n \in matched |->
           [js |-> relativePath(EntryPath(n))] @@ CssProperty(names) @@ imports]
      ssrOnly == [n \in {page.name : page \in {q \in Pages : ~q.hydrate}} |-> CssProperty(names)]
  IN ssrOnly @@ hydratedEntries

\* the hydrated pages whose client entry file exists
Entrypoints == {page.name : page \in {q \in Pages : q.hydrate}} \cap project.clientEntries

\* buildProduction starts: dist/ is removed and created anew.
StartBuild ==
  /\ step = "start"
  /\ step' = "css"
  /\ dist' = Cleaned(dist)
  /\ UNCHANGED <<project, tailwind, cssFileNames, bundle>>
  /\ UNCHANGED <<resolverVars, isDev, manifestLoaded, reads, probes, renders, firstAttempt,
                 rendered, clientVars, pagesVars, devVars, createVars>>

\* Tailwind exits for the next stylesheet: on a non-zero code buildProduction
\* throws, otherwise the hashed file is written and recorded.
TailwindExits ==
  /\ step = "css"
  /\ Len(tailwind) < Len(project.cssFiles)
  /\ \E code \in {0, 1} :
       LET baseName == project.cssFiles[Len(tailwind) + 1]
           hashedFileName == baseName \o "-5d41402a.css"
       IN /\ tailwind' = Append(tailwind, code)
          /\ IF code # 0
             THEN /\ step' = "rejected"
                  /\ UNCHANGED <<cssFileNames, dist>>
             ELSE /\ cssFileNames' =
                       Append(cssFileNames, [baseName |-> baseName, file |-> hashedFileName])
                  /\ dist' = [dist EXCEPT !.css = Append(@, hashedFileName)]
                  /\ UNCHANGED step
  /\ UNCHANGED <<project, bundle>>
  /\ UNCHANGED <<resolverVars, isDev, manifestLoaded, reads, probes, renders, firstAttempt,
                 rendered, clientVars, pagesVars, devVars, createVars>>

\* The stylesheets are built: the bundler runs if there is an entry point;
\* when it fails buildProduction throws, otherwise manifest.json is written.
Bundle ==
  /\ step = "css"
  /\ Len(tailwind) = Len(project.cssFiles)
  /\ \E success \in BOOLEAN, chunks \in {<<>>, <<"chunk-7be2.js">>} :
       /\ bundle' = IF Entrypoints = {} THEN [ran |-> FALSE]
                    ELSE [ran |-> TRUE, success |-> success, chunks |-> chunks]
       /\ IF bundle'.ran /\ ~success
          THEN /\ step' = "rejected"
               /\ UNCHANGED dist
          ELSE /\ step' = "resolved"
               /\ dist' = [dist EXCEPT !.manifest =
                             JsonFile(WrittenManifest(Entrypoints,
                                                      IF bundle'.ran THEN chunks ELSE <<>>,
                                                      cssFileNames))]
  /\ UNCHANGED <<project, tailwind, cssFileNames>>
  /\ UNCHANGED <<resolverVars, isDev, manifestLoaded, reads, probes, renders, firstAttempt,
                 rendered, clientVars, pagesVars, devVars, createVars>>

\* neulix build is run in a project, over whatever an earlier build left
InitBuild ==
  /\ ResolverUnused
  /\ isDev = FALSE /\ manifestLoaded = FALSE /\ reads = 0 /\ probes = 0 /\ renders = 0
  /\ firstAttempt = [made |-> FALSE] /\ rendered = NoRender
  /\ dist \in DistStates
  /\ hydrated = NoHydration /\ input = <<>> /\ pages = NoPages /\ DevUnused
  /\ project \in [cssFiles : {<<>>, <<"global">>, <<"theme", "global">>, <<"theme", "print">>},
                  clientEntries : SUBSET {"home", "about"}]
  /\ step = "start"
  /\ tailwind = <<>>
  /\ cssFileNames = <<>>
  /\ bundle = [ran |-> FALSE]
  /\ CreateUnused
NextBuild == StartBuild \/ TailwindExits \/ Bundle
SpecBuild == InitBuild /\ [][NextBuild]_vars

-----------------------------------------------------------------------------
(* packages/create-neulix/src/index.ts *)

\* process.cwd() of the run, and join(import.meta.dirname, '..', 'template')
Cwd == "/home/dev"
TemplateDir == "/opt/create-neulix/template"

\* path.resolve(from, to): the absolute path without '', '.' and '..' segments
resolve(from, to) ==
  LET full == IF CharAt(to, 1) = "/" THEN to ELSE from \o "/" \o to
      RECURSIVE Walk(_, _, _)
      Walk(i, seg, done) ==
        LET pushed == IF seg \in {"", "."} THEN done
                      ELSE IF seg = ".." THEN SubSeq(done, 1, Len(done) - 1)
                      ELSE Append(done, seg)
        IN IF i > Len(full) THEN pushed
           ELSE IF CharAt(full, i) = "/" THEN Walk(i + 1, "", pushed)
           ELSE Walk(i + 1, seg \o CharAt(full, i), done)
  IN "/" \o Join(Walk(1, "", <<>>), "/")

\* path.basename(path): the last segment, trailing slashes dropped
Unsplit(path) == path
basename(path) ==
  LET named == {i \in 1..Len(path) : CharAt(path, i) # "/"}
      end == CHOOSE i \in named : \A j \in named : j <= i
      slashes == {i \in 1..end : CharAt(path, i) = "/"}
      start == IF slashes = {} THEN 1
               ELSE (CHOOSE i \in slashes : \A j \in slashes : j <= i) + 1
  IN IF named = {} THEN "" ELSE SubSeq(path, start, end)

\* mkdirSync(dir, { recursive: true }): dir and its missing ancestors
mkdirSync(d, dir) ==
  LET ancestors == {SubSeq(dir, 1, i - 1) : i \in {j \in 2..Len(dir) : CharAt(dir, j) = "/"}}
  IN d @@ [path \in ancestors \cup {dir} |-> [dir |-> TRUE]]

\* cpSync(src, dest, { recursive: true }): src and all below it, over what dest holds
cpSync(d, src, dest) ==
  LET below == {path \in DOMAIN d :
                  \/ path = src
                  \/ Len(path) > Len(src) /\ SubSeq(path, 1, Len(src) + 1) = src \o "/"}
      rest(path, dir) == SubSeq(path, Len(dir) + 1, Len(path))
  IN [path \in {dest \o rest(q, src) : q \in below} |-> d[src \o rest(path, dest)]] @@ d

\* The whole script.  package.json is held as the object JSON.parse yields
\* and JSON.stringify writes back.
CreateNeulix ==
  /\ ~scaffold.ran
  /\ LET projectName == IF Len(argv) > 0 THEN argv[1] ELSE ""
         targetDir == resolve(Cwd, projectName)
         copied == cpSync(mkdirSync(disk, targetDir), TemplateDir, targetDir)
         pkgPath == targetDir \o "/package.json"
         pkg == copied[pkgPath].data
         named == [copied EXCEPT ![pkgPath].data =
                     IF "name" \in DOMAIN pkg THEN [pkg EXCEPT !.name = basename(projectName)]
                     ELSE pkg @@ [name |-> basename(projectName)]]
         gitignorePath == targetDir \o "/gitignore"
         renamed == LET with == cpSync(named, gitignorePath, targetDir \o "/.gitignore")
                    IN [path \in DOMAIN with \ {gitignorePath} |-> with[path]]
     IN IF projectName = ""
        THEN /\ scaffold' = [ran |-> TRUE, printed |-> "Usage", exit |-> 1]
             /\ UNCHANGED disk
        ELSE IF targetDir \in DOMAIN disk
        THEN /\ scaffold' = [ran |-> TRUE, printed |-> "Error", exit |-> 1]
             /\ UNCHANGED disk
        ELSE /\ scaffold' = [ran |-> TRUE, printed |-> "Done", exit |-> 0]
             /\ disk' = IF gitignorePath \in DOMAIN named THEN renamed ELSE named
  /\ UNCHANGED argv
  /\ UNCHANGED <<resolverVars, ssrVars, clientVars, pagesVars, devVars, buildVars>>

\* bunx create-neulix is run in Cwd with zero, one or two arguments; the
\* template holds the files the script handles by name and the sources
InitCreate ==
  /\ ResolverUnused /\ SsrUnused
  /\ hydrated = NoHydration /\ input = <<>> /\ pages = NoPages
  /\ DevUnused /\ BuildUnused
  /\ argv \in {<<>>, <<"">>, <<"my-app">>, <<"my-app/">>, <<"./my-app">>, <<"apps/my-app">>,
               <<"../my-app">>, <<"notes.txt">>, <<"my-app", "apps/my-app">>}
  /\ \E gitignore \in BOOLEAN,
        existing \in SUBSET {Cwd \o "/my-app", Cwd \o "/apps", Cwd \o "/apps/my-app"},
        files \in SUBSET {Cwd \o "/notes.txt", Cwd \o "/my-app/package.json"} :
       /\ \A path \in existing \cup files :
            \A i \in 2..Len(path) :
              CharAt(path, i) = "/" /\ i > Len(Cwd) + 1 => SubSeq(path, 1, i - 1) \in existing
       /\ disk =
            [path \in files |->
               [dir |-> FALSE,
                data |-> IF EndsWith(path, ".json") THEN [name |-> "old"] ELSE "notes"]]
            @@ [path \in existing \cup {"/home", Cwd} |-> [dir |-> TRUE]]
            @@ [path \in {TemplateDir \o "/gitignore" : g \in {TRUE} \cap {gitignore}} |->
                 [dir |-> FALSE, data |-> "node_modules"]]
            @@ (TemplateDir \o "/package.json" :>
                  [dir |-> FALSE, data |-> [name |-> "neulix-app", private |-> TRUE]])
            @@ [path \in {TemplateDir \o "/src/server.ts", TemplateDir \o "/src/pages/registry.ts"}
                  |-> [dir |-> FALSE, data |-> "import"]]
            @@ [path \in {"/opt", "/opt/create-neulix", TemplateDir, TemplateDir \o "/src",
                          TemplateDir \o "/src/pages"} |-> [dir |-> TRUE]]
  /\ scaffold = [ran |-> FALSE]
SpecCreate == InitCreate /\ [][CreateNeulix]_vars

TypeOK == result.status \in {"none", "return", "throw"}

-----------------------------------------------------------------------------
(* Properties of the resolvers *)

Called == result.status # "none"

\* the manifest key the latest call looked up
LookedUpKey ==
  IF module = FlatModule THEN args.entryName ELSE EntryKey(args.entryName, args.hydrate)

\* the manifest holds a record of its own under that key
EntryPresent == LookedUpKey \in DOMAIN manifest

Range(seq) == {seq[i] : i \in 1..Len(seq)}

AllEmpty == [status |-> "return", scriptTags |-> "", cssTags |-> "", preloadTags |-> ""]

\* C1: resolving an entry the manifest holds with hydrate=false returns a
\* non-empty cssTags and empty scriptTags and preloadTags, whatever js or
\* imports the record carries.
C1_SsrOnlyYieldsOnlyCss ==
  (Called /\ ~args.hydrate /\ EntryPresent) =>
    /\ result.status = "return"
    /\ result.cssTags # ""
    /\ result.scriptTags = ""
    /\ result.preloadTags = ""

C1_Witness ==
  /\ module = FlatModule
  /\ Called /\ ~args.hydrate /\ EntryPresent
  /\ {"js", "imports"} \subseteq DOMAIN manifest[args.entryName]
  /\ Len(manifest[args.entryName].imports) > 0
  /\ result.cssTags = "<link rel=\"stylesheet\" href=\"/styles-def.css\">"
  /\ result.scriptTags = ""

\* C2: resolving an entry name the manifest does not hold returns three
\* empty fragments, for either hydrate value, and raises nothing.
C2_AbsentEntryYieldsAllEmpty ==
  (Called /\ ~EntryPresent) => result = AllEmpty

\* C3: for a hydrated entry whose imports repeat a filename, preloadTags
\* holds exactly one modulepreload link per distinct filename.
C3_DuplicateImportsPreloadedOnce ==
  (/\ module = FlatModule
   /\ Called /\ args.hydrate /\ EntryPresent
   /\ {"js", "imports"} \subseteq DOMAIN manifest[args.entryName]) =>
    /\ result.status = "return"
    /\ \A f \in Range(manifest[args.entryName].imports) :
         Occurrences(result.preloadTags, "<link rel=\"modulepreload\" href=\"/" \o f \o "\">") = 1

\* keys of the records a chunk imports that the manifest holds
ImportedKeys(M, key) ==
  IF "imports" \in DOMAIN M[key] THEN Range(M[key].imports) \cap DOMAIN M ELSE {}

RECURSIVE Closure(_, _)
Closure(M, keys) ==
  LET more == keys \cup UNION {ImportedKeys(M, k) : k \in keys}
  IN IF more = keys THEN keys ELSE Closure(M, more)

\* files of the chunk records reachable from key through one or more imports
ReachableFiles(M, key) == {M[k].file : k \in Closure(M, ImportedKeys(M, key))}

\* C4: in the chunk-keyed resolver a hydrated page whose entry exists gets
\* exactly one modulepreload link per distinct file of the chunk records
\* reachable from the entry, and no other link.
C4_ReachableChunksPreloadedOnce ==
  (module = UtilsModule /\ Called /\ args.hydrate /\ EntryPresent) =>
    /\ result.status = "return"
    /\ \A f \in ReachableFiles(manifest, LookedUpKey) :
         Occurrences(result.preloadTags, "<link rel=\"modulepreload\" href=\"/" \o f \o "\">") = 1
    /\ Occurrences(result.preloadTags, "rel=\"modulepreload\"")
         = Cardinality(ReachableFiles(manifest, LookedUpKey))

\* the latest call is a hydrated lookup of a flat entry that has js
HydratedFlatEntry ==
  /\ module = FlatModule
  /\ Called /\ args.hydrate /\ EntryPresent
  /\ "js" \in DOMAIN manifest[args.entryName]

\* C5: a flat entry with js and no imports key, resolved with hydrate=true,
\* yields an empty preloadTags together with the css and script tags.
C5_NoImportsKeyYieldsEmptyPreload ==
  (HydratedFlatEntry /\ "imports" \notin DOMAIN manifest[args.entryName]) =>
    /\ result.status = "return"
    /\ result.preloadTags = ""
    /\ result.cssTags = "<link rel=\"stylesheet\" href=\"/" \o manifest[args.entryName].css \o "\">"
    /\ result.scriptTags =
         "<script type=\"module\" src=\"/" \o manifest[args.entryName].js \o "\"></script>"

C5_Witness ==
  /\ HydratedFlatEntry
  /\ "imports" \notin DOMAIN manifest[args.entryName]
  /\ result.preloadTags = ""
  /\ result.scriptTags = "<script type=\"module\" src=\"/home-abc.js\"></script>"

\* the preload fragment the claim prescribes for an imports list
RECURSIVE ExpectedPreload(_)
ExpectedPreload(imports) ==
  IF Len(imports) = 0 THEN ""
  ELSE "<link rel=\"modulepreload\" href=\"/" \o Head(imports) \o "\">"
       \o (IF Len(imports) = 1 THEN "" ELSE "\n    " \o ExpectedPreload(Tail(imports)))

PairwiseDistinct(seq) == \A i, j \in 1..Len(seq) : seq[i] = seq[j] => i = j

\* C6: for a flat entry with js J, css C and pairwise-distinct imports,
\* hydrate=true yields exactly the stylesheet link of C, the module script of
\* J and the modulepreload links of the imports in list order, joined by a
\* newline and four spaces.
C6_HydratedEntryExactTags ==
  (/\ HydratedFlatEntry
   /\ "imports" \in DOMAIN manifest[args.entryName]
   /\ PairwiseDistinct(manifest[args.entryName].imports)) =>
    /\ result.status = "return"
    /\ result.cssTags = "<link rel=\"stylesheet\" href=\"/" \o manifest[args.entryName].css \o "\">"
    /\ result.scriptTags =
         "<script type=\"module\" src=\"/" \o manifest[args.entryName].js \o "\"></script>"
    /\ result.preloadTags = ExpectedPreload(manifest[args.entryName].imports)

C6_Witness ==
  /\ HydratedFlatEntry
  /\ manifest = [home |-> [js |-> "home-abc.js", css |-> "styles-def.css",
                          imports |-> <<"chunk-xyz.js">>]]
  /\ args = [entryName |-> "home", hydrate |-> TRUE]
  /\ result = [status |-> "return",
               cssTags |-> "<link rel=\"stylesheet\" href=\"/styles-def.css\">",
               preloadTags |-> "<link rel=\"modulepreload\" href=\"/chunk-xyz.js\">",
               scriptTags |-> "<script type=\"module\" src=\"/home-abc.js\"></script>"]

\* C7: every call of getPageAssetTags returns a result; none throws.
C7_AlwaysReturns == Called => result.status = "return"

-----------------------------------------------------------------------------
(* Properties of renderPage *)

\* C9: in production dist/manifest.json is probed and read at most once, on
\* the first renderPage call, and every later call uses what that first
\* attempt left, "no manifest" included; in development the manifest is
\* never read and getPageAssetTags is never called.
C9_ManifestLoadedOnce ==
  /\ reads <= 1
  /\ probes <= 1
  /\ isDev => (reads = 0 /\ probes = 0 /\ ~Called /\ manifest = Undefined)
  /\ ~isDev => (probes = 1 <=> renders >= 1)
  /\ (~isDev /\ rendered.status = "return") => rendered.used = firstAttempt.manifest

C9_Witness ==
  /\ ~isDev
  /\ renders >= 2
  /\ firstAttempt.made /\ firstAttempt.manifest = Undefined
  /\ dist.manifest.exists /\ dist.manifest.valid
  /\ rendered.status = "return"
  /\ rendered.used = Undefined
  /\ reads = 0

\* C10: the document renderPage returns holds the __PROPS__ script element
\* exactly when the page hydrates and props were given; an SSR-only page
\* renders its props but never serialises them.
C10_PropsScriptIffHydratedWithProps ==
  rendered.status = "return" =>
    /\ Includes(rendered.html, "<script id=\"__PROPS__\" type=\"application/json\">")
         <=> (rendered.page.hydrate /\ "props" \in DOMAIN rendered.options)
    /\ (~rendered.page.hydrate /\ "props" \in DOMAIN rendered.options) =>
         /\ ~Includes(rendered.html, "__PROPS__")
         /\ ~Includes(rendered.html, JsonStringify(rendered.options.props))
         /\ \A i \in 1..Len(rendered.options.props) :
              Includes(rendered.html, "<p>" \o rendered.options.props[i].value \o "</p>")

C10_Witness ==
  /\ rendered.status = "return"
  /\ ~rendered.page.hydrate
  /\ "props" \in DOMAIN rendered.options
  /\ Len(rendered.options.props) > 0
  /\ Includes(rendered.html, "<p>ann</p>")
  /\ ~Includes(rendered.html, "__PROPS__")

-----------------------------------------------------------------------------
(* Properties of the served document in the browser *)

\* C11: whatever the props hold, markup included, the text of the __PROPS__
\* script element of a hydrated page's document is the whole serialised
\* props: none of it lands outside the element.
C11_PropsStayInsideScriptElement ==
  (/\ rendered.status = "return"
   /\ rendered.page.hydrate
   /\ "props" \in DOMAIN rendered.options) =>
    LET propsEl == getElementById__PROPS__(rendered.html)
    IN /\ propsEl.element
       /\ propsEl.textContent = JsonStringify(rendered.options.props)

\* C12: hydrate() on the document of a hydrated page hands the component the
\* props renderPage handed it: the given props parsed back from __PROPS__,
\* or the empty object when none were given.
C12_ClientPropsEqualServerProps ==
  hydrated.status # "none" =>
    /\ hydrated.status = "return"
    /\ hydrated.mounted
    /\ hydrated.props = OptionOr(rendered.options, "props", <<>>)

-----------------------------------------------------------------------------
(* Properties of createPages *)

\* C13: createPages(input) returns an object with exactly the keys of input;
\* under each key k the page has name = k and every other field of input[k]
\* as it was; input is left as it was given.
C13_CreatePagesNamesEveryKey ==
  pages.created =>
    /\ DOMAIN pages.result = DOMAIN input
    /\ \A k \in DOMAIN input :
         /\ pages.result[k].name = k
         /\ DOMAIN pages.result[k] = DOMAIN input[k] \cup {"name"}
         /\ \A f \in DOMAIN input[k] \ {"name"} : pages.result[k][f] = input[k][f]
    /\ input = pages.given

-----------------------------------------------------------------------------
(* Properties of the development watcher *)

\* C14: a change event for pages/registry.ts makes the watch callback both
\* restart the server and schedule a client rebuild.
C14_RegistryChangeRestartsAndRebuilds ==
  (event.delivered /\ event.filename = "pages/registry.ts") =>
    /\ event.restarts >= 1
    /\ event.client >= 1
    /\ rebuildTimeout.set \/ bursts.client.phase = "over"

ClientSideFile(filename) == EndsWith(filename, ".client.tsx") \/ Includes(filename, "client/")
ServerSideFile(filename) ==
  EndsWith(filename, "server.ts") \/ Includes(filename, "utils/") \/ Includes(filename, "api/")

\* C15 as stated: in cli/dev.ts a change to a file ending .client.tsx or
\* under client/ schedules a client rebuild and restarts no server; a change
\* to server.ts or to a file under utils/ or api/ restarts the server.
C15_ClientFilesRebuildServerFilesRestart ==
  (event.delivered /\ devModule = CliDev) =>
    /\ ClientSideFile(event.filename) => (event.client >= 1 /\ event.restarts = 0)
    /\ ServerSideFile(event.filename) => event.restarts >= 1

\* C15 amended: the same, except that a client-side file which is also a
\* server-side one (under utils/ or api/, a server.ts, a registry.ts, or
\* under pages/ without the .client.tsx suffix) restarts the server as well.
C15_ClientFilesRebuildUnlessAlsoServerSide ==
  (event.delivered /\ devModule = CliDev) =>
    /\ ClientSideFile(event.filename) => event.client >= 1
    /\ (/\ ClientSideFile(event.filename)
        /\ ~ServerSideFile(event.filename)
        /\ ~Includes(event.filename, "registry.ts")
        /\ EndsWith(event.filename, ".client.tsx") \/ ~Includes(event.filename, "pages/")) =>
         event.restarts = 0
    /\ ServerSideFile(event.filename) => event.restarts >= 1

C15_Witness ==
  /\ devModule = CliDev
  /\ event.delivered
  /\ event.filename = "pages/Home.client.tsx"
  /\ event.client = 1 /\ event.restarts = 0
  /\ rebuildTimeout = Timeout(DebounceMs)
  /\ serverProcess = 1

\* C16: a burst of change events less than the debounce delay apart starts
\* exactly one build of its kind, the delay after its last event, and no
\* kind ever has two timers pending.
C16_BurstStartsOneBuild ==
  \A kind \in {"client", "css"} :
    /\ Cardinality(timers[kind]) <= 1
    /\ bursts[kind].phase = "open" => bursts[kind].started = 0
    /\ bursts[kind].phase = "over" =>
         (bursts[kind].started = 1 /\ bursts[kind].quiet = DebounceMs)

\* C17: no server child is spawned before the initial CSS and client builds
\* are complete.
C17_NoServerBeforeInitialBuilds ==
  spawned > 0 => main = "watching"

\* C18: once a signal made dev.ts exit, which is its exit with code 0, the
\* watcher is closed and no server child it spawned is still running.
C18_ShutdownLeavesNoServer ==
  (~Running /\ exitCode # <<1>>) =>
    /\ exitCode = <<0>>
    /\ watcher = "closed"
    /\ children = {}

C18_Witness ==
  /\ ~Running
  /\ spawned >= 2
  /\ serverProcess = spawned
  /\ children = {}
  /\ watcher = "closed"

\* C23: never more than one buildClient call is under way, whether it
\* awaits the pages or the bundler: a call made during a build starts no
\* second bundler run.
C23_OneClientBuildAtATime ==
  builds.loading + builds.bundling <= 1

\* the debounce timer of a burst ran its callback during a build
C23_Witness ==
  /\ Running
  /\ bursts.client.phase = "over" /\ bursts.client.started = 0
  /\ buildInProgress
  /\ builds.bundling = 1

\* C24: as long as a client rebuild was scheduled and neither a buildClient
\* call nor a bundler run has begun since, one is still to come: the
\* debounce timer is pending or a buildClient call awaits the pages.
C24_NoClientChangeLost ==
  unbuilt => (timers.client # {} \/ builds.loading > 0)

\* C25: while dev.ts runs and no buildClient call is under way, the guard
\* is released, however the calls made so far ended.
C25_GuardReleasedAfterEveryBuild ==
  (Running /\ builds.loading + builds.bundling = 0) => ~buildInProgress

\* C26: of the server children spawned so far only the most recent can be
\* running, and it is the one the watcher tracks.
C26_OnlyLatestServerLives ==
  /\ children \subseteq {spawned}
  /\ spawned > 0 => serverProcess = spawned

C26_Witness ==
  /\ Running
  /\ devModule = FirstDev
  /\ event.delivered /\ event.restarts = 1
  /\ spawned >= 3
  /\ children = {spawned}

\* C27: the watch callback calls restartServer at most once per change
\* event, whatever file the event names.
C27_OneRestartPerEvent ==
  event.delivered => event.restarts <= 1

-----------------------------------------------------------------------------
(* Properties of the production build *)

\* C19: after a build that succeeded manifest.json holds, for every page
\* with hydrate=false, an entry with css and neither js nor imports, and for
\* every hydrated page whose client entry was bundled an entry with js and
\* css, and with the emitted chunks as imports when there are any.
C19_ManifestHoldsEveryBuiltPage ==
  step = "resolved" =>
    /\ dist.manifest.exists /\ dist.manifest.valid
    /\ \A page \in Pages :
         LET M == dist.manifest.value
         IN /\ ~page.hydrate =>
                 (page.name \in DOMAIN M /\ DOMAIN M[page.name] = {"css"})
            /\ (page.hydrate /\ page.name \in project.clientEntries) =>
                 /\ page.name \in DOMAIN M
                 /\ {"js", "css"} \subseteq DOMAIN M[page.name]
                 /\ EndsWith(M[page.name].js, ".js")
                 /\ (bundle.chunks # <<>>) =>
                      ("imports" \in DOMAIN M[page.name]
                       /\ M[page.name].imports = bundle.chunks)

\* C20: when Tailwind exits non-zero for a stylesheet or the bundler reports
\* a failure, buildProduction rejects, and dist/ holds no manifest.json
\* afterwards, neither a new one nor one of an earlier build.
C20_FailedBuildLeavesNoManifest ==
  /\ ((\E i \in 1..Len(tailwind) : tailwind[i] # 0) \/ (bundle.ran /\ ~bundle.success)) =>
       step = "rejected"
  /\ step = "rejected" => ~dist.manifest.exists

C20_Witness ==
  /\ step = "rejected"
  /\ bundle.ran /\ ~bundle.success
  /\ Len(cssFileNames) = 2
  /\ Len(dist.css) = 2
  /\ ~dist.manifest.exists

\* C22: the flat resolver returns preloadTags only along with scriptTags:
\* for an entry without js both are empty and cssTags alone is returned,
\* even with hydrate=true and imports; a non-empty preloadTags comes with a
\* non-empty scriptTags.
C22_PreloadOnlyWithScript ==
  (module = FlatModule /\ Called /\ result.status = "return") =>
    /\ result.preloadTags # "" => result.scriptTags # ""
    /\ (EntryPresent /\ ("js" \notin DOMAIN manifest[args.entryName]
                         \/ manifest[args.entryName].js = "")) =>
         /\ result.scriptTags = ""
         /\ result.preloadTags = ""
         /\ result.cssTags # ""

C22_Witness ==
  /\ module = FlatModule
  /\ Called /\ args.hydrate /\ EntryPresent
  /\ "js" \notin DOMAIN manifest[args.entryName]
  /\ "imports" \in DOMAIN manifest[args.entryName]
  /\ Len(manifest[args.entryName].imports) > 1
  /\ result = Returned("", "<link rel=\"stylesheet\" href=\"/styles-def.css\">", "")

-----------------------------------------------------------------------------
(* Properties of create-neulix *)

\* C21: a run without a project name prints the usage and exits with 1; a
\* run whose target exists prints an error and exits with 1, and neither
\* changes anything on disk; any other run copies the template into the
\* target and sets the name in its package.json to the base name of the
\* project argument.
C21_CreateRefusesExistingTarget ==
  [][~scaffold.ran /\ scaffold'.ran =>
       LET target == Cwd \o "/" \o
                       (IF argv[1] \in {"my-app", "my-app/", "./my-app"} THEN "my-app"
                        ELSE argv[1])
           \* the files of the template, as paths below TemplateDir
           TemplateFiles(d) ==
             {SubSeq(path, Len(TemplateDir) + 1, Len(path)) :
                path \in {q \in DOMAIN d : Len(q) > Len(TemplateDir) /\ ~d[q].dir
                                            /\ SubSeq(q, 1, Len(TemplateDir)) = TemplateDir}}
       IN IF argv = <<>> \/ argv[1] = ""
          THEN scaffold'.printed = "Usage" /\ scaffold'.exit = 1 /\ disk' = disk
          ELSE IF argv[1] # "../my-app" /\ target \in DOMAIN disk
          THEN scaffold'.printed = "Error" /\ scaffold'.exit = 1 /\ disk' = disk
          ELSE LET made == IF argv[1] = "../my-app" THEN "/home/my-app" ELSE target
               IN /\ \A path \in DOMAIN disk : path \in DOMAIN disk'
                  /\ \A file \in TemplateFiles(disk) \ {"/package.json", "/gitignore"} :
                       /\ made \o file \in DOMAIN disk'
                       /\ disk'[made \o file] = disk[TemplateDir \o file]
                  /\ disk'[made \o "/package.json"].data.name
                       = (IF argv[1] = "notes.txt" THEN "notes.txt" ELSE "my-app")
                  /\ \A path \in DOMAIN disk : disk'[path] = disk[path]]_vars

\* a run refused the directory an earlier project lives in
C21_Witness ==
  /\ scaffold.ran
  /\ argv = <<"my-app/">>
  /\ scaffold.printed = "Error" /\ scaffold.exit = 1
  /\ Cwd \o "/my-app/package.json" \in DOMAIN disk
  /\ disk[Cwd \o "/my-app/package.json"].data.name = "old"
  /\ Cwd \o "/my-app/src/server.ts" \notin DOMAIN disk

====
